---- MODULE Spec2Model ----
(***************************************************************************)
(* Todo / Contact REST resource layer of building_apis/first_api/todo.      *)
(*                                                                         *)
(* State: the two tables of the Entity Store (todos, contacts), the        *)
(* auto-increment counter of the Todo table, the wall clock, and the last  *)
(* request together with the response it produced.  One action per HTTP    *)
(* handler; a handler runs validation, the store write and the rendering   *)
(* of the response in one step (Spec), or validation and write as two      *)
(* steps of a worker (SpecConc).                                           *)
(***************************************************************************)
EXTENDS Integers, Sequences, FiniteSets, TLC

VARIABLES todos, nextId, contacts, now, last, pend

vars == <<todos, nextId, contacts, now, last, pend>>

(***************************************************************************)
(* Bounds of the model.                                                    *)
(***************************************************************************)
MaxId == 2
MaxClock == 1
MaxContacts == 2

(***************************************************************************)
(* Wire values.  A JSON value is a tagged record; a string is a sequence   *)
(* of characters so that trimming and parsing are computed, not assumed.   *)
(***************************************************************************)
Absent == [t |-> "absent"]
Null == [t |-> "null"]
Str(s) == [t |-> "str", v |-> s]
Bool(b) == [t |-> "bool", v |-> b]

IsStr(x) == x.t = "str"

Space == " "

RECURSIVE LStrip(_)
LStrip(s) == IF s # <<>> /\ Head(s) = Space THEN LStrip(Tail(s)) ELSE s

RECURSIVE RStrip(_)
RStrip(s) ==
    IF s # <<>> /\ s[Len(s)] = Space THEN RStrip(SubSeq(s, 1, Len(s) - 1)) ELSE s

\* str.strip(), applied by CharField.to_internal_value (trim_whitespace).
Trim(s) == RStrip(LStrip(s))

(***************************************************************************)
(* Input alphabets of the requests the model issues.                       *)
(***************************************************************************)
TaskInputs == {Absent, Null, Str(<<"a">>), Str(<<" ", "a">>)}
DetailsInputs == {Absent, Str(<<"d">>), Str(<<"d", " ">>)}
CompletedInputs == {Absent, Bool(TRUE), Str(<<"x">>)}

TodoBodies ==
    [task : TaskInputs, details : DetailsInputs, completed : CompletedInputs]

\* the bodies that decide a task collision: a task, details sent or not
CoreTodoBodies ==
    {b \in TodoBodies :
        b.task # Absent /\ b.completed = Absent /\ b.details # Str(<<"d", " ">>)}

\* the primary keys the model allocates, and the ids a client names
Ids == 1 .. MaxId

(***************************************************************************)
(* models.py: Todo.  A row is [task, details, completed, created, updated];*)
(* todos maps the primary keys of the stored rows to the rows.             *)
(***************************************************************************)
TaskMaxLength == 200
DetailsMaxLength == 500

\* BooleanField.TRUE_VALUES / FALSE_VALUES, restricted to one-character and
\* native spellings
TrueValues == {Bool(TRUE), Str(<<"1">>), Str(<<"t">>), Str(<<"T">>), Str(<<"y">>), Str(<<"Y">>)}
FalseValues == {Bool(FALSE), Str(<<"0">>), Str(<<"f">>), Str(<<"F">>), Str(<<"n">>), Str(<<"N">>)}

NoError == "ok"

\* variant: the serializer without its UniqueValidator on task
TaskNeverTaken(v, inst) == FALSE

\* rows holding task value v, other than row `inst` (0: no instance)
TaskTaken(v, inst) ==
    \E i \in DOMAIN todos : i # inst /\ todos[i].task = v

(* TodoSerializer.task: CharField(max_length=200, required=False,          *)
(* allow_null=True, validators=[UniqueValidator]).  The result is          *)
(* <<error code, internal value>>; Absent as value means the field is      *)
(* skipped.                                                                *)
TaskField(x, inst) ==
    IF x = Absent THEN <<NoError, Absent>>
    ELSE IF x = Null THEN <<NoError, Null>>
    ELSE IF ~IsStr(x) THEN <<"invalid", Absent>>
    ELSE IF Trim(x.v) = <<>> THEN <<"blank", Absent>>
    ELSE IF Len(Trim(x.v)) > TaskMaxLength THEN <<"max_length", Absent>>
    ELSE IF TaskTaken(Str(Trim(x.v)), inst) THEN <<"unique", Absent>>
    ELSE <<NoError, Str(Trim(x.v))>>

(* TodoSerializer.details: CharField(max_length=500), required unless the  *)
(* serializer is partial.                                                  *)
DetailsField(x, partial) ==
    IF x = Absent THEN <<IF partial THEN NoError ELSE "required", Absent>>
    ELSE IF x = Null THEN <<"null", Absent>>
    ELSE IF ~IsStr(x) THEN <<"invalid", Absent>>
    ELSE IF Trim(x.v) = <<>> THEN <<"blank", Absent>>
    ELSE IF Len(Trim(x.v)) > DetailsMaxLength THEN <<"max_length", Absent>>
    ELSE <<NoError, Str(Trim(x.v))>>

(* TodoSerializer.completed: BooleanField(required=False).                 *)
CompletedField(x) ==
    IF x = Absent THEN <<NoError, Absent>>
    ELSE IF x \in TrueValues THEN <<NoError, Bool(TRUE)>>
    ELSE IF x \in FalseValues THEN <<NoError, Bool(FALSE)>>
    ELSE IF x = Null THEN <<"null", Absent>>
    ELSE <<"invalid", Absent>>

\* Serializer.to_internal_value over the three declared fields
TodoFields(body, inst, partial) ==
    [task |-> TaskField(body.task, inst),
     details |-> DetailsField(body.details, partial),
     completed |-> CompletedField(body.completed)]

TodoFieldNames == {"task", "details", "completed"}

\* serializer.errors: the fields that failed, each with its error code
TodoErrors(body, inst, partial) ==
    LET r == TodoFields(body, inst, partial)
    IN  {<<f, r[f][1]>> : f \in {g \in TodoFieldNames : r[g][1] # NoError}}

\* serializer.validated_data (Absent: the key is not in the mapping)
TodoValidated(body, inst, partial) ==
    LET r == TodoFields(body, inst, partial)
    IN  [f \in TodoFieldNames |-> r[f][2]]

\* variant: a null task rendered as the empty string
SerializeTodoBlankNull(row) ==
    [task |-> IF row.task = Null THEN Str(<<>>) ELSE row.task,
     details |-> row.details, completed |-> row.completed]

\* TodoSerializer.to_representation: fields = ['task', 'details', 'completed']
SerializeTodo(row) ==
    [task |-> row.task, details |-> row.details, completed |-> row.completed]

\* Todo.objects.all() rendered with many=True, in primary-key order
RECURSIVE SerializeAll(_, _)
SerializeAll(tbl, i) ==
    IF i > MaxId THEN <<>>
    ELSE (IF i \in DOMAIN tbl THEN <<SerializeTodo(tbl[i])>> ELSE <<>>)
         \o SerializeAll(tbl, i + 1)

\* Model defaults for the keys validated_data does not hold, and the
\* auto_now_add / auto_now timestamps
NewTodo(data, t) ==
    [task |-> IF data.task = Absent THEN Null ELSE data.task,
     details |-> data.details,
     completed |-> IF data.completed = Absent THEN Bool(FALSE) ELSE data.completed,
     created |-> t,
     updated |-> t]

\* ModelSerializer.update: setattr for each validated key, then save()
UpdatedTodo(row, data, t) ==
    [task |-> IF data.task = Absent THEN row.task ELSE data.task,
     details |-> IF data.details = Absent THEN row.details ELSE data.details,
     completed |-> IF data.completed = Absent THEN row.completed ELSE data.completed,
     created |-> row.created,
     updated |-> t]

(***************************************************************************)
(* models.py: Contact; serializers.py: ContactSerializer.  contacts is the *)
(* table in insertion order; a row is [name, phone_number, email].         *)
(***************************************************************************)
NameInputs == {Absent, Str(<<"n">>), Str(<<"m">>)}
PhoneInputs == {Str(<<"1">>), Str(<<"1", " ">>), Str(<<"2">>)}
EmailInputs ==
    {Str(<<"x", "@", "y", ".", "z">>), Str(<<"w", "@", "y", ".", "z">>), Str(<<"x">>)}

ContactBodies ==
    [name : NameInputs, phone_number : PhoneInputs, email : EmailInputs]

Rows(tbl) == {tbl[i] : i \in DOMAIN tbl}

\* position of the last "@" of s, 0 when there is none (value.rsplit("@", 1))
RECURSIVE LastAt(_, _)
LastAt(s, i) == IF i = 0 THEN 0 ELSE IF s[i] = "@" THEN i ELSE LastAt(s, i - 1)

\* EmailValidator: user@domain, a non-empty user part and a dotted domain,
\* neither holding a space or a further "@"
IsEmail(s) ==
    LET k == LastAt(s, Len(s))
        user == SubSeq(s, 1, k - 1)
        domain == SubSeq(s, k + 1, Len(s))
        Plain(u) == \A i \in DOMAIN u : u[i] \notin {Space, "@"}
    IN  /\ k > 1
        /\ Plain(user)
        /\ Plain(domain)
        /\ \E i \in DOMAIN domain : domain[i] = "." /\ 1 < i /\ i < Len(domain)

MsgRequired == "This field is required."
MsgBlank == "This field may not be blank."
MsgEmail == "Enter a valid email address."
MsgPhone == "Phone number already entered"
MsgMail == "Email is already used"
MsgPair == "No Phone number can have 2 different names"

\* CharField(): required, not blank, trimmed
NameField(x) ==
    IF x = Absent THEN <<MsgRequired, <<>>>>
    ELSE IF Trim(x.v) = <<>> THEN <<MsgBlank, <<>>>>
    ELSE <<NoError, Trim(x.v)>>

\* variant: phone_number declared without its UniqueValidator
PhoneFieldUnchecked(x, tbl) ==
    IF x = Absent THEN <<MsgRequired, <<>>>>
    ELSE IF Trim(x.v) = <<>> THEN <<MsgBlank, <<>>>>
    ELSE <<NoError, Trim(x.v)>>

\* CharField(validators=[UniqueValidator(message="Phone number already entered")])
PhoneField(x, tbl) ==
    IF x = Absent THEN <<MsgRequired, <<>>>>
    ELSE IF Trim(x.v) = <<>> THEN <<MsgBlank, <<>>>>
    ELSE IF \E r \in Rows(tbl) : r.phone_number = Trim(x.v) THEN <<MsgPhone, <<>>>>
    ELSE <<NoError, Trim(x.v)>>

\* EmailField(validators=[UniqueValidator(message="Email is already used")])
EmailField(x, tbl) ==
    IF x = Absent THEN <<MsgRequired, <<>>>>
    ELSE IF Trim(x.v) = <<>> THEN <<MsgBlank, <<>>>>
    ELSE IF ~IsEmail(Trim(x.v)) THEN <<MsgEmail, <<>>>>
    ELSE IF \E r \in Rows(tbl) : r.email = Trim(x.v) THEN <<MsgMail, <<>>>>
    ELSE <<NoError, Trim(x.v)>>

ContactFieldNames == {"name", "phone_number", "email"}

\* the fields are validated against the table as it is when
\* to_internal_value runs
ContactFields(body, tbl) ==
    [name |-> NameField(body.name),
     phone_number |-> PhoneField(body.phone_number, tbl),
     email |-> EmailField(body.email, tbl)]

ContactData(body, tbl) ==
    LET r == ContactFields(body, tbl)
    IN  [f \in ContactFieldNames |-> r[f][2]]

\* Meta.validators: UniqueTogetherValidator(fields=['name', 'phone_number'])
PairTaken(data, tbl) ==
    \E r \in Rows(tbl) : r.name = data.name /\ r.phone_number = data.phone_number

(* Serializer.run_validation: the field errors of to_internal_value; the   *)
(* class-level validators run only when no field failed.                   *)
ContactErrors(body, tbl) ==
    LET r == ContactFields(body, tbl)
        fieldErrs == {<<f, r[f][1]>> : f \in {g \in ContactFieldNames : r[g][1] # NoError}}
    IN  IF fieldErrs # {} THEN fieldErrs
        ELSE IF PairTaken(ContactData(body, tbl), tbl)
             THEN {<<"non_field_errors", MsgPair>>}
             ELSE {}

SerializeContact(row) ==
    [name |-> Str(row.name), phone_number |-> Str(row.phone_number),
     email |-> Str(row.email)]

SerializeContacts(tbl) == [i \in DOMAIN tbl |-> SerializeContact(tbl[i])]

(***************************************************************************)
(* Requests and responses.  last is the request handled last and the       *)
(* response it got: [op, id, body, status, data, errors, detail].          *)
(***************************************************************************)
NoBody == [task |-> Absent, details |-> Absent, completed |-> Absent]

Idle == [stage |-> "idle"]
Workers == {1, 2}

Response(op, id, body, status, data, errors, detail) ==
    [op |-> op, id |-> id, body |-> body, status |-> status, data |-> data,
     errors |-> errors, detail |-> detail]

\* exceptions.py: NotAcceptable, raised with the detail views.py builds
NotAcceptableStatus == 406
NotAcceptableDetail == "we cannot accept this because details field is required"

Init ==
    /\ todos = <<>>
    /\ nextId = 1
    /\ contacts = <<>>
    /\ now = 0
    /\ last = Response("none", 0, NoBody, 0, <<>>, {}, "")
    /\ pend = [w \in Workers |-> Idle]

\* time passes between requests
Tick ==
    /\ now < MaxClock
    /\ now' = now + 1
    /\ UNCHANGED <<todos, nextId, contacts, last, pend>>

\* TodoListApiView.get
ListTodos ==
    /\ last' = Response("list_todos", 0, NoBody, 200, SerializeAll(todos, 1), {}, "")
    /\ UNCHANGED <<todos, nextId, contacts, now, pend>>

(* TodoListApiView.post: save and 201 when the serializer is valid;        *)
(* otherwise serializer.errors['details'] is read, which raises KeyError   *)
(* (an unhandled exception, HTTP 500) when details did not fail, and       *)
(* NotAcceptable is raised when it did.                                    *)
PostTodo(body) ==
    LET errs == TodoErrors(body, 0, FALSE)
        row == NewTodo(TodoValidated(body, 0, FALSE), now)
    IN  IF errs = {}
        THEN /\ nextId <= MaxId
             /\ todos' = [i \in DOMAIN todos \cup {nextId} |->
                            IF i = nextId THEN row ELSE todos[i]]
             /\ nextId' = nextId + 1
             /\ last' = Response("post_todo", nextId, body, 201,
                                 <<SerializeTodo(row)>>, {}, "")
             /\ UNCHANGED <<contacts, now, pend>>
        ELSE /\ last' = IF \E e \in errs : e[1] = "details"
                        THEN Response("post_todo", 0, body, NotAcceptableStatus,
                                      <<>>, errs, NotAcceptableDetail)
                        ELSE Response("post_todo", 0, body, 500, <<>>, errs, "KeyError")
             /\ UNCHANGED <<todos, nextId, contacts, now, pend>>

NotFound(op, id, body) == Response(op, id, body, 404, <<>>, {}, "Not found.")

\* RetrieveUpdateDestroyAPIView.get: get_object() or 404
RetrieveTodo(id) ==
    /\ last' = IF id \in DOMAIN todos
               THEN Response("get_todo", id, NoBody, 200, <<SerializeTodo(todos[id])>>, {}, "")
               ELSE NotFound("get_todo", id, NoBody)
    /\ UNCHANGED <<todos, nextId, contacts, now, pend>>

\* variant: the fields that validated are written before the errors are
\* looked at
UpdateTodoSaveFirst(op, id, body, partial) ==
    IF id \notin DOMAIN todos
    THEN /\ last' = NotFound(op, id, body)
         /\ UNCHANGED <<todos, nextId, contacts, now, pend>>
    ELSE LET errs == TodoErrors(body, id, partial)
             row == UpdatedTodo(todos[id], TodoValidated(body, id, partial), now)
         IN  /\ todos' = [todos EXCEPT ![id] = row]
             /\ last' = IF errs # {}
                        THEN Response(op, id, body, 400, <<>>, errs, "")
                        ELSE Response(op, id, body, 200, <<SerializeTodo(row)>>, {}, "")
             /\ UNCHANGED <<nextId, contacts, now, pend>>

(* UpdateModelMixin.update: get_object() or 404, the serializer over the   *)
(* instance (partial for PATCH only), is_valid(raise_exception=True) or    *)
(* 400, then save.                                                         *)
UpdateTodo(op, id, body, partial) ==
    IF id \notin DOMAIN todos
    THEN /\ last' = NotFound(op, id, body)
         /\ UNCHANGED <<todos, nextId, contacts, now, pend>>
    ELSE LET errs == TodoErrors(body, id, partial)
             row == UpdatedTodo(todos[id], TodoValidated(body, id, partial), now)
         IN  IF errs # {}
             THEN /\ last' = Response(op, id, body, 400, <<>>, errs, "")
                  /\ UNCHANGED <<todos, nextId, contacts, now, pend>>
             ELSE /\ todos' = [todos EXCEPT ![id] = row]
                  /\ last' = Response(op, id, body, 200, <<SerializeTodo(row)>>, {}, "")
                  /\ UNCHANGED <<nextId, contacts, now, pend>>

PutTodo(id, body) == UpdateTodo("put_todo", id, body, FALSE)

PatchTodo(id, body) == UpdateTodo("patch_todo", id, body, TRUE)

\* variant: the hand-written delete the generic view replaced, which
\* answers 400 for an id that is not stored
DeleteTodoLegacy(id) ==
    IF id \notin DOMAIN todos
    THEN /\ last' = Response("delete_todo", id, NoBody, 400, <<>>, {}, "")
         /\ UNCHANGED <<todos, nextId, contacts, now, pend>>
    ELSE /\ todos' = [i \in DOMAIN todos \ {id} |-> todos[i]]
         /\ last' = Response("delete_todo", id, NoBody, 200, <<>>, {}, "")
         /\ UNCHANGED <<nextId, contacts, now, pend>>

\* DestroyModelMixin.destroy: get_object() or 404, delete, 204
DeleteTodo(id) ==
    IF id \notin DOMAIN todos
    THEN /\ last' = NotFound("delete_todo", id, NoBody)
         /\ UNCHANGED <<todos, nextId, contacts, now, pend>>
    ELSE /\ todos' = [i \in DOMAIN todos \ {id} |-> todos[i]]
         /\ last' = Response("delete_todo", id, NoBody, 204, <<>>, {}, "")
         /\ UNCHANGED <<nextId, contacts, now, pend>>

\* ContactApiView (ListCreateAPIView).get
ListContacts ==
    /\ last' = Response("list_contacts", 0, NoBody, 200, SerializeContacts(contacts), {}, "")
    /\ UNCHANGED <<todos, nextId, contacts, now, pend>>

\* ContactSerializer.create: Contact.objects.create(**validated_data)
CreateContact(tbl, data) ==
    Append(tbl, [name |-> data.name, phone_number |-> data.phone_number,
                 email |-> data.email])

\* ContactApiView.post: is_valid(raise_exception=True) or 400, create, 201
PostContact(body) ==
    LET errs == ContactErrors(body, contacts)
        data == ContactData(body, contacts)
    IN  IF errs # {}
        THEN /\ last' = Response("post_contact", 0, body, 400, <<>>, errs, "")
             /\ UNCHANGED <<todos, nextId, contacts, now, pend>>
        ELSE /\ Len(contacts) < MaxContacts
             /\ contacts' = CreateContact(contacts, data)
             /\ last' = Response("post_contact", Len(contacts) + 1, body, 201,
                                 <<SerializeContact(data)>>, {}, "")
             /\ UNCHANGED <<todos, nextId, now, pend>>

\* the requests of the Todo resource, one handled after the other
NextTodo ==
    \/ ListTodos
    \/ \E body \in TodoBodies : PostTodo(body)
    \/ \E id \in Ids : RetrieveTodo(id)
    \/ \E id \in Ids, body \in TodoBodies : PutTodo(id, body)
    \/ \E id \in Ids, body \in TodoBodies : PatchTodo(id, body)
    \/ \E id \in Ids : DeleteTodo(id)

\* the requests of the Contact resource, one handled after the other
NextContact ==
    \/ ListContacts
    \/ \E body \in ContactBodies : PostContact(body)

\* both resources behind the one API, the Todo bodies kept to the core ones
Next ==
    \/ ListTodos
    \/ \E body \in CoreTodoBodies : PostTodo(body)
    \/ \E id \in Ids : RetrieveTodo(id)
    \/ \E id \in Ids, body \in CoreTodoBodies : PutTodo(id, body)
    \/ \E id \in Ids, body \in CoreTodoBodies : PatchTodo(id, body)
    \/ \E id \in Ids : DeleteTodo(id)
    \/ NextContact

\* every request of the API, handled one at a time
Spec == Init /\ [][Next]_vars

\* the Todo resource alone
SpecTodo == Init /\ [][NextTodo]_vars

\* the Todo resource with time passing between requests
SpecClock == Init /\ [][NextTodo \/ Tick]_vars

\* the Contact resource alone
SpecContact == Init /\ [][NextContact]_vars

(***************************************************************************)
(* Requests handled concurrently.  A worker validates a request against    *)
(* the store in one step and writes in a later one; pend holds what each   *)
(* worker carries between the two.  The database enforces what models.py   *)
(* declares: Todo.task is unique, Contact has no constraint.               *)
(***************************************************************************)
ConcContactBodies ==
    {b \in ContactBodies : b.name # Absent /\ IsEmail(Trim(b.email.v))}

Pending(stage) == {w \in Workers : pend[w].stage = stage}

\* ContactApiView.post up to serializer.is_valid()
BeginPostContact(w, body) ==
    LET errs == ContactErrors(body, contacts)
    IN  /\ pend[w] = Idle
        /\ IF errs # {}
           THEN /\ last' = Response("post_contact", 0, body, 400, <<>>, errs, "")
                /\ UNCHANGED pend
           ELSE /\ Len(contacts) + Cardinality(Pending("contact")) < MaxContacts
                /\ pend' = [pend EXCEPT ![w] =
                              [stage |-> "contact", body |-> body,
                               data |-> ContactData(body, contacts)]]
                /\ UNCHANGED last
        /\ UNCHANGED <<todos, nextId, contacts, now>>

\* ContactApiView.post from serializer.save(): models.py declares no
\* constraint on Contact, so the INSERT always succeeds
FinishPostContact(w) ==
    /\ pend[w].stage = "contact"
    /\ contacts' = CreateContact(contacts, pend[w].data)
    /\ last' = Response("post_contact", Len(contacts) + 1, pend[w].body, 201,
                        <<SerializeContact(pend[w].data)>>, {}, "")
    /\ pend' = [pend EXCEPT ![w] = Idle]
    /\ UNCHANGED <<todos, nextId, now>>

NextConc ==
    \/ \E w \in Workers, body \in ConcContactBodies : BeginPostContact(w, body)
    \/ \E w \in Workers : FinishPostContact(w)

\* Contact requests handled by two workers at once
SpecConc == Init /\ [][NextConc]_vars

\* variant: task declared without unique=True, so no index refuses a write
TaskIndexMissing(row, id) == TRUE

\* the UNIQUE index of Todo.task: a row with a non-null task may be written
\* under key id only when no other row holds that task
TaskIndexAllows(row, id) == row.task = Null \/ ~TaskTaken(row.task, id)

\* TodoListApiView.post up to serializer.is_valid()
BeginPostTodo(w, body) ==
    LET errs == TodoErrors(body, 0, FALSE)
    IN  /\ pend[w] = Idle
        /\ IF errs # {}
           THEN /\ last' = IF \E e \in errs : e[1] = "details"
                           THEN Response("post_todo", 0, body, NotAcceptableStatus,
                                         <<>>, errs, NotAcceptableDetail)
                           ELSE Response("post_todo", 0, body, 500, <<>>, errs, "KeyError")
                /\ UNCHANGED pend
           ELSE /\ nextId + Cardinality(Pending("create")) <= MaxId
                /\ pend' = [pend EXCEPT ![w] =
                              [stage |-> "create", body |-> body,
                               row |-> NewTodo(TodoValidated(body, 0, FALSE), now)]]
                /\ UNCHANGED last
        /\ UNCHANGED <<todos, nextId, contacts, now>>

\* TodoListApiView.post from serializer.save(): the INSERT, refused by the
\* unique index with an IntegrityError (HTTP 500)
FinishPostTodo(w) ==
    /\ pend[w].stage = "create"
    /\ pend' = [pend EXCEPT ![w] = Idle]
    /\ IF TaskIndexAllows(pend[w].row, 0)
       THEN /\ todos' = [i \in DOMAIN todos \cup {nextId} |->
                           IF i = nextId
                           THEN [pend[w].row EXCEPT !.created = now, !.updated = now]
                           ELSE todos[i]]
            /\ nextId' = nextId + 1
            /\ last' = Response("post_todo", nextId, pend[w].body, 201,
                                <<SerializeTodo(pend[w].row)>>, {}, "")
       ELSE /\ last' = Response("post_todo", 0, pend[w].body, 500, <<>>, {},
                                "IntegrityError")
            /\ UNCHANGED <<todos, nextId>>
    /\ UNCHANGED <<contacts, now>>

\* UpdateModelMixin.update up to serializer.is_valid(): the instance is
\* read and the validated values are set on it
BeginUpdateTodo(w, op, id, body, partial) ==
    /\ pend[w] = Idle
    /\ IF id \notin DOMAIN todos
       THEN /\ last' = NotFound(op, id, body)
            /\ UNCHANGED pend
       ELSE LET errs == TodoErrors(body, id, partial)
            IN  IF errs # {}
                THEN /\ last' = Response(op, id, body, 400, <<>>, errs, "")
                     /\ UNCHANGED pend
                ELSE /\ pend' = [pend EXCEPT ![w] =
                                   [stage |-> "update", op |-> op, id |-> id,
                                    body |-> body,
                                    row |-> UpdatedTodo(todos[id],
                                               TodoValidated(body, id, partial), now)]]
                     /\ UNCHANGED last
    /\ UNCHANGED <<todos, nextId, contacts, now>>

BeginPutTodo(w, id, body) == BeginUpdateTodo(w, "put_todo", id, body, FALSE)

BeginPatchTodo(w, id, body) == BeginUpdateTodo(w, "patch_todo", id, body, TRUE)

\* UpdateModelMixin.update from serializer.save(): Model.save() writes every
\* column of the instance under its key (an UPDATE, or an INSERT when the row
\* is gone), refused by the unique index with an IntegrityError
FinishUpdateTodo(w) ==
    /\ pend[w].stage = "update"
    /\ pend' = [pend EXCEPT ![w] = Idle]
    /\ IF TaskIndexAllows(pend[w].row, pend[w].id)
       THEN /\ todos' = [i \in DOMAIN todos \cup {pend[w].id} |->
                           IF i = pend[w].id
                           THEN [pend[w].row EXCEPT !.updated = now]
                           ELSE todos[i]]
            /\ last' = Response(pend[w].op, pend[w].id, pend[w].body, 200,
                                <<SerializeTodo(pend[w].row)>>, {}, "")
       ELSE /\ last' = Response(pend[w].op, pend[w].id, pend[w].body, 500, <<>>, {},
                                "IntegrityError")
            /\ UNCHANGED todos
    /\ UNCHANGED <<nextId, contacts, now>>

NextTodoConc ==
    \/ \E w \in Workers, body \in CoreTodoBodies : BeginPostTodo(w, body)
    \/ \E w \in Workers : FinishPostTodo(w)
    \/ \E w \in Workers, id \in Ids, body \in CoreTodoBodies : BeginPutTodo(w, id, body)
    \/ \E w \in Workers, id \in Ids, body \in CoreTodoBodies : BeginPatchTodo(w, id, body)
    \/ \E w \in Workers : FinishUpdateTodo(w)
    \/ \E id \in Ids : DeleteTodo(id)

\* Todo requests handled by two workers at once
SpecTodoConc == Init /\ [][NextTodoConc]_vars

(***************************************************************************)
(* Properties.                                                             *)
(***************************************************************************)
Success == {200, 201, 204}

\* rows of the Todo table holding task value v
WithTask(tbl, v) == {i \in DOMAIN tbl : tbl[i].task = v}

TodoUnique ==
    \A i, j \in DOMAIN todos :
        (i # j /\ todos[i].task # Null) => todos[i].task # todos[j].task

\* the response of this step answers a create or an update whose task, as
\* stored, is held by another row
DuplicateTaskStep ==
    /\ last' # last
    /\ last'.op \in {"post_todo", "put_todo", "patch_todo"}
    /\ IsStr(last'.body.task)
    /\ TaskTaken(Str(Trim(last'.body.task.v)),
                 IF last'.op = "post_todo" THEN 0 ELSE last'.id)

(* C1: in every state reachable by any interleaving of Todo requests, no   *)
(* two Todo rows share a non-null task; and a create or update whose task  *)
(* equals the task of another stored Todo leaves the store as it was.      *)
C1_TaskUnique ==
    /\ []TodoUnique
    /\ [][DuplicateTaskStep => todos' = todos]_vars

\* a racing POST was refused by the unique index while its task is stored once
C1_Witness ==
    /\ last.op = "post_todo"
    /\ last.detail = "IntegrityError"
    /\ last.status = 500
    /\ Cardinality(WithTask(todos, Str(<<"a">>))) = 1

ContactUnique ==
    \A i, j \in DOMAIN contacts :
        i # j =>
            /\ contacts[i].phone_number # contacts[j].phone_number
            /\ contacts[i].email # contacts[j].email
            /\ <<contacts[i].name, contacts[i].phone_number>>
                   # <<contacts[j].name, contacts[j].phone_number>>

(* C2: after any sequence of POST /contacts/ requests handled one after    *)
(* another, no two Contacts share a phone_number, an email, or a           *)
(* (name, phone_number) pair.                                              *)
C2_ContactsUnique == ContactUnique

\* two Contacts are stored and a further POST was refused for its phone
C2_Witness ==
    /\ Len(contacts) = 2
    /\ last.op = "post_contact"
    /\ last.status = 400
    /\ <<"phone_number", MsgPhone>> \in last.errors

(* C3: every POST /todos/ whose body fails validation ends with the Not    *)
(* Acceptable error (406), whichever field failed.                         *)
C3_InvalidPostIs406 ==
    (last.op = "post_todo" /\ last.status # 201) => last.status = NotAcceptableStatus

DupPhone(b) == \E r \in Rows(contacts) : r.phone_number = Trim(b.phone_number.v)
DupEmail(b) == \E r \in Rows(contacts) : r.email = Trim(b.email.v)
DupPair(b) ==
    /\ b.name # Absent
    /\ \E r \in Rows(contacts) :
           r.name = Trim(b.name.v) /\ r.phone_number = Trim(b.phone_number.v)

(* C4: a POST /contacts/ that violates a uniqueness rule is answered 400,  *)
(* creates no Contact, and reports the message of each rule it violates.   *)
C4_EveryViolationReported ==
    [][LET b == last'.body
       IN  (last'.op = "post_contact" /\ (DupPhone(b) \/ DupEmail(b) \/ DupPair(b)))
           => /\ last'.status = 400
              /\ contacts' = contacts
              /\ DupPhone(b) => <<"phone_number", MsgPhone>> \in last'.errors
              /\ DupEmail(b) => <<"email", MsgMail>> \in last'.errors
              /\ DupPair(b) => <<"non_field_errors", MsgPair>> \in last'.errors]_vars

Supplied(b) == {f \in TodoFieldNames : b[f] # Absent}

(* C5: a PUT on an existing Todo that supplies only some of task, details, *)
(* completed (each with an acceptable value) succeeds, changes exactly the *)
(* supplied fields, refreshes updated, and leaves created, the other       *)
(* fields and every other Todo unchanged.                                  *)
C5_PartialPutUpdates ==
    [][LET b == last'.body
           id == last'.id
       IN  (/\ last'.op = "put_todo"
            /\ id \in DOMAIN todos
            /\ Supplied(b) # {} /\ Supplied(b) # TodoFieldNames
            /\ TodoErrors(b, id, TRUE) = {})
           => /\ last'.status = 200
              /\ DOMAIN todos' = DOMAIN todos
              /\ \A f \in TodoFieldNames \ Supplied(b) : todos'[id][f] = todos[id][f]
              /\ \A f \in Supplied(b) : todos'[id][f] = TodoValidated(b, id, TRUE)[f]
              /\ todos'[id].updated = now
              /\ todos'[id].created = todos[id].created
              /\ \A j \in DOMAIN todos \ {id} : todos'[j] = todos[j]]_vars

(* C6: a GET, PUT or DELETE on /todos/{id}/ where no Todo with that id is  *)
(* stored is answered 404 and leaves the store unchanged.                  *)
C6_MissingIs404 ==
    [][(last'.op \in {"get_todo", "put_todo", "delete_todo"} /\ last'.id \notin DOMAIN todos)
       => /\ last'.status = 404
          /\ todos' = todos
          /\ nextId' = nextId
          /\ contacts' = contacts]_vars

\* a DELETE of an id that was allocated and is gone: the second DELETE
C6_Witness ==
    /\ last.op = "delete_todo"
    /\ last.status = 404
    /\ last.id < nextId
    /\ last.id \notin DOMAIN todos

FullBody(b) == Supplied(b) = TodoFieldNames

\* the body as the store holds it: strings stripped, completed a boolean
Canonical(b) ==
    [task |-> IF IsStr(b.task) THEN Str(Trim(b.task.v)) ELSE b.task,
     details |-> IF IsStr(b.details) THEN Str(Trim(b.details.v)) ELSE b.details,
     completed |-> IF b.completed \in TrueValues THEN Bool(TRUE)
                   ELSE IF b.completed \in FalseValues THEN Bool(FALSE)
                   ELSE b.completed]

\* a body with all three keys, each acceptable, whose task no Todo holds
ValidNew(b) ==
    /\ FullBody(b)
    /\ \/ b.task = Null
       \/ /\ IsStr(b.task)
          /\ Trim(b.task.v) # <<>>
          /\ WithTask(todos, Str(Trim(b.task.v))) = {}
    /\ IsStr(b.details) /\ Trim(b.details.v) # <<>>
    /\ b.completed \in TrueValues \cup FalseValues

\* this step answers a POST of such a body
FirstPost == last'.op = "post_todo" /\ ValidNew(last'.body)

\* this step answers the same POST as the one answered 201 just before
SecondPost ==
    /\ last.op = "post_todo" /\ last.status = 201 /\ FullBody(last.body)
    /\ last'.op = "post_todo" /\ last'.body = last.body
    /\ last' # last

(* C7 as stated: the POST is answered 201 with a body equal to the input   *)
(* and adds exactly one Todo; the same POST again is answered with an      *)
(* error and exactly one Todo holds that task.                             *)
C7_AsStated ==
    [][/\ FirstPost =>
            /\ last'.status = 201
            /\ last'.data = <<last'.body>>
            /\ Cardinality(DOMAIN todos') = Cardinality(DOMAIN todos) + 1
       /\ SecondPost =>
            /\ last'.status # 201
            /\ Cardinality(WithTask(todos', Canonical(last'.body).task)) = 1]_vars

(* C7 amended: the POST is answered 201 with the body in the form the      *)
(* store holds it (the input itself when it is already in that form) and   *)
(* adds exactly one Todo; when task is not null, the same POST again is    *)
(* answered with an error and exactly one Todo holds that task.            *)
C7_PostThenDuplicate ==
    [][/\ FirstPost =>
            /\ last'.status = 201
            /\ last'.data = <<Canonical(last'.body)>>
            /\ Canonical(last'.body) = last'.body => last'.data = <<last'.body>>
            /\ DOMAIN todos' = DOMAIN todos \cup {last'.id}
            /\ last'.id \notin DOMAIN todos
            /\ \A i \in DOMAIN todos : todos'[i] = todos[i]
       /\ (SecondPost /\ last'.body.task # Null) =>
            /\ last'.status \notin Success
            /\ todos' = todos
            /\ Cardinality(WithTask(todos', Canonical(last'.body).task)) = 1]_vars

\* the second POST of {"a", "d", true} was refused; one Todo holds task "a"
C7_Witness ==
    /\ last.op = "post_todo"
    /\ last.body = [task |-> Str(<<"a">>), details |-> Str(<<"d">>),
                    completed |-> Bool(TRUE)]
    /\ last.status = 500
    /\ last.errors = {<<"task", "unique">>}
    /\ Cardinality(WithTask(todos, Str(<<"a">>))) = 1

C9_ConcurrentContactsUnique ==
    \A i, j \in DOMAIN contacts :
        i # j =>
            /\ contacts[i].phone_number # contacts[j].phone_number
            /\ contacts[i].email # contacts[j].email

(* C10: a request answered with an error status leaves the Entity Store as *)
(* it was, and no request modifies or removes an existing Contact.         *)
C10_AllOrNothing ==
    [][/\ last'.status \notin Success =>
            (todos' = todos /\ nextId' = nextId /\ contacts' = contacts)
       /\ \A i \in DOMAIN contacts :
            i \in DOMAIN contacts' /\ contacts'[i] = contacts[i]]_vars

\* an update was refused while both tables hold rows
C10_Witness ==
    /\ last.op = "put_todo"
    /\ last.status = 400
    /\ DOMAIN todos # {}
    /\ Len(contacts) = 2

====
